---- MODULE Spec2Model ----
(***************************************************************************)
(* Model of the two source-rewriting scripts of sepilot_desktop:           *)
(*   scripts/migrate-to-context-api.py  (useChatStore -> context API)      *)
(*   scripts/migrate-to-safe-api.py     (window.electronAPI -> wrapper)    *)
(* File contents are TLA+ strings and every pass works on the characters   *)
(* of the text, as the Python code does.                                   *)
(***************************************************************************)
EXTENDS Integers, Sequences, FiniteSets, TLC

(***************************************************************************)
(* Text primitives: str slicing, "in", str.count, str.split, str.strip.    *)
(***************************************************************************)
\* F applied to the value of x: x is evaluated once, before F is entered.
Strict(x, F(_)) == CHOOSE r \in {F(v) : v \in {x}} : TRUE

Ch(s, i) == SubSeq(s, i, i)

From(s, i) == SubSeq(s, i, Len(s))

LitAt(s, i, lit) ==
    /\ i + Len(lit) - 1 <= Len(s)
    /\ Ch(s, i) = Ch(lit, 1)
    /\ SubSeq(s, i, i + Len(lit) - 1) = lit

MinOf(S) == CHOOSE x \in S : \A y \in S : x <= y

MaxOf(S) == CHOOSE x \in S : \A y \in S : x >= y

\* str.find(lit, from) with 1-based positions; 0 when lit does not occur.
Find(s, lit, from) ==
    Strict({i \in from..(Len(s) - Len(lit) + 1) : LitAt(s, i, lit)},
           LAMBDA hits : IF hits = {} THEN 0 ELSE MinOf(hits))

\* "lit in s"
Contains(s, lit) == \E i \in 1..(Len(s) - Len(lit) + 1) : LitAt(s, i, lit)

\* s.count(lit): the non-overlapping occurrences, left to right.
RECURSIVE CountFrom(_, _, _)
CountFrom(s, lit, from) ==
    Strict(Find(s, lit, from),
           LAMBDA p : IF p = 0 THEN 0
                      ELSE Strict(p + Len(lit), LAMBDA q : 1 + CountFrom(s, lit, q)))

Count(s, lit) == Strict(s, LAMBDA t : CountFrom(t, lit, 1))

\* s.split('\n')
RECURSIVE SplitFrom(_, _)
SplitFrom(s, from) ==
    Strict(Find(s, "\n", from),
           LAMBDA p : IF p = 0 THEN <<From(s, from)>>
                      ELSE <<SubSeq(s, from, p - 1)>>
                           \o Strict(p + 1, LAMBDA q : SplitFrom(s, q)))

SplitLines(s) == Strict(s, LAMBDA t : SplitFrom(t, 1))

\* '\n'.join(lines)
RECURSIVE JoinFrom(_, _)
JoinFrom(lines, n) ==
    IF n > Len(lines) THEN ""
    ELSE IF n = Len(lines) THEN lines[n]
    ELSE lines[n] \o "\n" \o JoinFrom(lines, n + 1)

JoinLines(lines) == Strict(lines, LAMBDA ls : JoinFrom(ls, 1))

WS == {" ", "\t", "\n", "\r"}

WordChars ==
    {"a","b","c","d","e","f","g","h","i","j","k","l","m","n","o","p","q","r","s",
     "t","u","v","w","x","y","z","A","B","C","D","E","F","G","H","I","J","K","L",
     "M","N","O","P","Q","R","S","T","U","V","W","X","Y","Z","0","1","2","3","4",
     "5","6","7","8","9","_"}

\* The first position at or after i whose character is not in set.
SkipIn(s, i, set) ==
    Strict({j \in i..Len(s) : Ch(s, j) \notin set},
           LAMBDA stops : IF stops = {} THEN Len(s) + 1 ELSE MinOf(stops))

\* The first position at or after i whose character is in set.
SkipNotIn(s, i, set) ==
    Strict({j \in i..Len(s) : Ch(s, j) \in set},
           LAMBDA stops : IF stops = {} THEN Len(s) + 1 ELSE MinOf(stops))

\* The last position at or before i whose character is not in set.
SkipBackIn(s, i, set) ==
    Strict({j \in 1..i : Ch(s, j) \notin set},
           LAMBDA stops : IF stops = {} THEN 0 ELSE MaxOf(stops))

\* s.strip()
Strip(s) == Strict(s, LAMBDA t : SubSeq(t, SkipIn(t, 1, WS), SkipBackIn(t, Len(t), WS)))

(***************************************************************************)
(* The regular expressions of the scripts.  A pattern is the sequence of   *)
(* its elements: a literal, or one of the operators below, written as in   *)
(* the source.  Every quantified element of these patterns is followed by  *)
(* an element that cannot start with a character the quantifier accepts,   *)
(* so the greedy match is the only match and re never backtracks into it.  *)
(* MatchFrom is the position after a match of pat[k..] at i, 0 if none.    *)
(***************************************************************************)
\* The elements that are not literals.
Operators ==
    {"\\s*", "\\s+", "\\w+", "[^)]*", "[^}]+", "[!?]?", "[:{]", "['\"]", "(?!\\()"}

\* The position after the match of the one element e at i, 0 if none.
Step(s, i, e) ==
    CASE e = "\\s*" -> SkipIn(s, i, WS)
      [] e = "\\s+" -> IF i <= Len(s) /\ Ch(s, i) \in WS THEN SkipIn(s, i, WS) ELSE 0
      [] e = "\\w+" -> IF i <= Len(s) /\ Ch(s, i) \in WordChars
                       THEN SkipIn(s, i, WordChars) ELSE 0
      [] e = "[^)]*" -> SkipNotIn(s, i, {")"})
      [] e = "[^}]+" -> IF i <= Len(s) /\ Ch(s, i) # "}"
                        THEN SkipNotIn(s, i, {"}"}) ELSE 0
      [] e = "[!?]?" -> IF i <= Len(s) /\ Ch(s, i) \in {"!", "?"} THEN i + 1 ELSE i
      [] e = "[:{]" -> IF i <= Len(s) /\ Ch(s, i) \in {":", "{"} THEN i + 1 ELSE 0
      [] e = "['\"]" -> IF i <= Len(s) /\ Ch(s, i) \in {"'", "\""} THEN i + 1 ELSE 0
      [] e = "(?!\\()" -> IF i <= Len(s) /\ Ch(s, i) = "(" THEN 0 ELSE i
      [] OTHER -> IF LitAt(s, i, e) THEN i + Len(e) ELSE 0

RECURSIVE MatchFrom(_, _, _, _)
MatchFrom(s, i, pat, k) ==
    IF k > Len(pat) THEN i
    ELSE Strict(Step(s, i, pat[k]),
                LAMBDA j : IF j = 0 THEN 0 ELSE MatchFrom(s, j, pat, k + 1))

MatchEnd(s, i, pat) == MatchFrom(s, i, pat, 1)

\* A match of pat can start at i: its first element, when a literal, is there.
StartsAt(s, i, pat) == pat[1] \in Operators \/ LitAt(s, i, pat[1])

\* re.search: the start of the leftmost match at or after from, 0 if none.
Search(s, pat, from) ==
    Strict({i \in from..Len(s) : StartsAt(s, i, pat) /\ MatchEnd(s, i, pat) # 0},
           LAMBDA hits : IF hits = {} THEN 0 ELSE MinOf(hits))

\* re.sub(pat, repl, s) for a literal replacement: every non-overlapping
\* match, left to right.
RECURSIVE SubFrom(_, _, _, _)
SubFrom(s, pat, repl, from) ==
    Strict(Search(s, pat, from),
           LAMBDA m : IF m = 0 THEN From(s, from)
                      ELSE SubSeq(s, from, m - 1) \o repl
                           \o Strict(MatchEnd(s, m, pat),
                                     LAMBDA e : SubFrom(s, pat, repl, e)))

ReSub(pat, repl, s) ==
    Strict(<<pat, s>>, LAMBDA a : SubFrom(a[2], a[1], repl, 1))

(***************************************************************************)
(* scripts/migrate-to-context-api.py                                       *)
(***************************************************************************)
\* The table in source order: <<state_key, api_path>>.
STATE_TO_API_MAP ==
    << <<"openFiles", "files.openFiles">>,
       <<"activeFilePath", "files.activeFilePath">>,
       <<"setActiveFile", "files.setActiveFile">>,
       <<"closeFile", "files.closeFile">>,
       <<"updateFileContent", "files.updateContent">>,
       <<"markFileDirty", "files.markDirty">>,
       <<"setOpenFiles", "files.openFile">>,
       <<"workingDirectory", "workspace.workingDirectory">>,
       <<"expandedFolderPaths", "workspace.expandedFolderPaths">>,
       <<"setWorkingDirectory", "workspace.setWorkingDirectory">>,
       <<"toggleExpandedFolder", "workspace.toggleExpandedFolder">>,
       <<"showTerminalPanel", "ui.showTerminalPanel">>,
       <<"setShowTerminalPanel", "ui.toggleTerminal">>,
       <<"editorAppearanceConfig", "ui.editorAppearanceConfig">>,
       <<"setEditorAppearanceConfig", "ui.updateEditorConfig">>,
       <<"editorChatMessages", "chat.messages">>,
       <<"setEditorChatMessages", "chat.addMessage">> >>

NewImportLine == "import { useExtensionAPIContext } from '@sepilot/extension-sdk';"

\* The loop of update_imports over lines[n..], with its import_added flag.
RECURSIVE UpdateLines(_, _, _)
UpdateLines(lines, n, import_added) ==
    IF n > Len(lines) THEN <<>>
    ELSE IF Contains(lines[n], "import { useChatStore }")
            \/ Contains(lines[n], "import {useChatStore}")
    THEN (IF ~import_added THEN <<NewImportLine>> ELSE <<>>)
         \o UpdateLines(lines, n + 1, TRUE)
    ELSE IF Contains(lines[n], "from '@/lib/store/chat-store'")
    THEN UpdateLines(lines, n + 1, import_added)
    ELSE <<lines[n]>> \o UpdateLines(lines, n + 1, import_added)

update_imports(content) ==
    Strict(SplitLines(content), LAMBDA lines : JoinLines(UpdateLines(lines, 1, FALSE)))

\* useChatStore\(\(state\)\s*=>\s*state\.{state_key}\)
SelectorPattern1(state_key) ==
    <<"useChatStore((state)", "\\s*", "=>", "\\s*", "state." \o state_key \o ")">>

\* useChatStore\(\s*\(state\)\s*=>\s*{\s*return\s+state\.{state_key};\s*}\s*\)
SelectorPattern2(state_key) ==
    <<"useChatStore(", "\\s*", "(state)", "\\s*", "=>", "\\s*", "{", "\\s*", "return",
      "\\s+", "state." \o state_key \o ";", "\\s*", "}", "\\s*", ")">>

\* One iteration of the loop of migrate_zustand_selectors.
SelectorStep(content, entry) ==
    ReSub(SelectorPattern2(entry[1]), "context." \o entry[2],
          ReSub(SelectorPattern1(entry[1]), "context." \o entry[2], content))

RECURSIVE SelectorLoop(_, _)
SelectorLoop(content, n) ==
    IF n > Len(STATE_TO_API_MAP) THEN content
    ELSE Strict(SelectorStep(content, STATE_TO_API_MAP[n]),
                LAMBDA next : SelectorLoop(next, n + 1))

migrate_zustand_selectors(content) == Strict(content, LAMBDA c : SelectorLoop(c, 1))

\* useChatStore\.getState\(\)\.{state_key}\(
GetStatePattern1(state_key) == <<"useChatStore.getState()." \o state_key \o "(">>

\* useChatStore\.getState\(\)\.{state_key}(?!\()
GetStatePattern2(state_key) == <<"useChatStore.getState()." \o state_key, "(?!\\()">>

\* A slip: the replacement of the call form without the parenthesis the
\* pattern consumed.
GetStateStep_drop_paren(content, entry) ==
    ReSub(GetStatePattern2(entry[1]), "context." \o entry[2],
          ReSub(GetStatePattern1(entry[1]), "context." \o entry[2], content))

\* One iteration of the loop of migrate_getstate_calls.
GetStateStep(content, entry) ==
    ReSub(GetStatePattern2(entry[1]), "context." \o entry[2],
          ReSub(GetStatePattern1(entry[1]), "context." \o entry[2] \o "(", content))

RECURSIVE GetStateLoop(_, _)
GetStateLoop(content, n) ==
    IF n > Len(STATE_TO_API_MAP) THEN content
    ELSE Strict(GetStateStep(content, STATE_TO_API_MAP[n]),
                LAMBDA next : GetStateLoop(next, n + 1))

migrate_getstate_calls(content) == Strict(content, LAMBDA c : GetStateLoop(c, 1))

HookStatement == "const context = useExtensionAPIContext()"

\* (export\s+)?function\s+\w+\s*\([^)]*\)\s*[:{]
FunctionPattern ==
    <<"function", "\\s+", "\\w+", "\\s*", "(", "[^)]*", ")", "\\s*", "[:{]">>

\* The position after a match of component_pattern at i, 0 if none: with the
\* optional group when "export\s+" is there, without it otherwise.
ComponentEnd(s, i) ==
    Strict(MatchEnd(s, i, <<"export", "\\s+">> \o FunctionPattern),
           LAMBDA withExport : IF withExport # 0 THEN withExport
                               ELSE MatchEnd(s, i, FunctionPattern))

\* add_hook_inside_component(match), on the matched text.
add_hook_inside_component(component_start) ==
    Strict(component_start,
           LAMBDA start : IF Ch(start, Len(start)) = "{"
                          THEN start \o "\n  " \o HookStatement \o ";"
                          ELSE start \o " {\n  " \o HookStatement \o ";")

\* re.sub(component_pattern, add_hook_inside_component, content, count=1)
insert_hook(content) ==
    Strict(<<content, {i \in 1..Len(content) :
                          /\ LitAt(content, i, "export") \/ LitAt(content, i, "function")
                          /\ ComponentEnd(content, i) # 0}>>,
           LAMBDA a :
               IF a[2] = {} THEN a[1]
               ELSE Strict(<<MinOf(a[2]), ComponentEnd(a[1], MinOf(a[2]))>>,
                           LAMBDA me :
                               SubSeq(a[1], 1, me[1] - 1)
                               \o add_hook_inside_component(SubSeq(a[1], me[1], me[2] - 1))
                               \o From(a[1], me[2])))

\* A slip the idempotence of the pipeline rests on not being made: no guard.
add_context_hook_unguarded(content) == Strict(content, LAMBDA c : insert_hook(c))

add_context_hook(content) ==
    Strict(content,
           LAMBDA c : IF Contains(c, HookStatement) THEN c ELSE insert_hook(c))

\* Steps 1-4 of migrate_file.
ContextPipeline(content) ==
    add_context_hook(migrate_getstate_calls(migrate_zustand_selectors(update_imports(content))))

(***************************************************************************)
(* scripts/migrate-to-safe-api.py                                          *)
(***************************************************************************)
has_safe_electron_import(content) == Contains(content, "safeElectronAPI")

\* from ['\"]@sepilot/extension-sdk['\"]
SdkFromPattern == <<"from ", "['\"]", "@sepilot/extension-sdk", "['\"]">>

\* import\s*{[^}]+}\s*from\s*['\"]@sepilot/extension-sdk['\"]
SdkImportPattern ==
    <<"import", "\\s*", "{", "[^}]+", "}", "\\s*", "from", "\\s*",
      "['\"]", "@sepilot/extension-sdk", "['\"]">>

SafeImportLine == "import { safeElectronAPI } from '@sepilot/extension-sdk';"

\* add_to_import(match), on the matched text.  The inner re.match always
\* matches what the outer pattern matched; its group 1 is the text between
\* the braces less leading whitespace, which "in" and strip() do not see.
add_to_import(line) ==
    Strict(<<line, Find(line, "{", 1)>>,
           LAMBDA a :
               Strict(SubSeq(a[1], a[2] + 1, Find(a[1], "}", a[2]) - 1),
                      LAMBDA imports :
                          IF ~Contains(imports, "safeElectronAPI")
                          THEN "import { " \o Strip(imports)
                               \o ", safeElectronAPI } from '@sepilot/extension-sdk'"
                          ELSE a[1]))

IsImportLine(line) == Strict(Strip(line), LAMBDA t : LitAt(t, 1, "import "))

\* The branch that extends the import from the SDK: re.sub(..., count=1).
extend_sdk_import(content) ==
    Strict(Search(content, SdkImportPattern, 1),
           LAMBDA m :
               IF m = 0 THEN content
               ELSE Strict(MatchEnd(content, m, SdkImportPattern),
                           LAMBDA e : SubSeq(content, 1, m - 1)
                                      \o add_to_import(SubSeq(content, m, e - 1))
                                      \o From(content, e)))

\* The branch that inserts a new import after the first import line.
insert_after_first_import(content) ==
    Strict(SplitLines(content),
           LAMBDA lines :
               Strict({i \in 1..Len(lines) : IsImportLine(lines[i])},
                      LAMBDA found :
                          IF found = {} THEN content
                          ELSE Strict(MinOf(found),
                                      LAMBDA first_import_idx :
                                          JoinLines(SubSeq(lines, 1, first_import_idx)
                                                    \o <<SafeImportLine>>
                                                    \o SubSeq(lines, first_import_idx + 1,
                                                              Len(lines))))))

add_safe_electron_import(content) ==
    Strict(content,
           LAMBDA c : IF has_safe_electron_import(c) THEN c
                      ELSE IF Search(c, SdkFromPattern, 1) # 0
                      THEN extend_sdk_import(c)
                      ELSE insert_after_first_import(c))

\* window\.electronAPI[!?]?\.
replace_electron_api_calls(content) ==
    ReSub(<<"window.electronAPI", "[!?]?", ".">>, "safeElectronAPI.", content)

\* A slip: the patterns without the optional '!' or '?' after the name.
GuardPattern_no_mark(operator, negation) ==
    <<"\\s*", operator, "\\s*", negation \o "window.electronAPI", "\\s*">>

\* \s*&&\s*!window\.electronAPI[!?]?\s*  and its three siblings, in source order.
GuardPattern(operator, negation) ==
    <<"\\s*", operator, "\\s*", negation \o "window.electronAPI", "[!?]?", "\\s*">>

remove_electron_api_checks(content) ==
    ReSub(GuardPattern("||", ""), "",
          ReSub(GuardPattern("||", "!"), "",
                ReSub(GuardPattern("&&", ""), "",
                      ReSub(GuardPattern("&&", "!"), "", content))))

\* Steps 1-3 of migrate_file.
SafePipeline(content) ==
    remove_electron_api_checks(replace_electron_api_calls(add_safe_electron_import(content)))

(***************************************************************************)
(* The run drivers: migrate_file and main of both scripts.                 *)
(***************************************************************************)
\* editor_dir and browser_dir
Roots ==
    <<"sepilot-desktop-extension-editor-local/src",
      "sepilot-desktop-extension-browser-local/src">>

\* The roots main walks, in order: editor_dir alone in the store-to-context
\* script, [editor_dir, browser_dir] in the safe-API script.
RootsOf(s) == IF s = "context" THEN <<1>> ELSE <<1, 2>>

Trigger(s) == IF s = "context" THEN "useChatStore" ELSE "window.electronAPI"

Pipeline(s, content) ==
    IF s = "context" THEN ContextPipeline(content) ELSE SafePipeline(content)

\* What read_text and write_text raise on a file that cannot be read or written.
ReadError == "'utf-8' codec can't decode byte 0xff in position 0: invalid start byte"

WriteError == "[Errno 13] Permission denied"

ResidualWarning(file_path, remaining) ==
    file_path \o ": " \o ToString(remaining)
    \o " instances of useChatStore remain (manual review needed)"

ErrorWarning(file_path, e) == file_path \o ": Error - " \o e

\* The outcome of one call of migrate_file: what it returns, what it prints,
\* whether it called write_text, the file's content afterwards, and whether
\* an exception left the function.
NoOutcome(text) ==
    [success |-> FALSE, warnings |-> <<>>, printed |-> <<>>, errors |-> <<>>,
     write_called |-> FALSE, content |-> text, raised |-> FALSE]

\* A slip: the file is written back whether or not the passes changed it.
changed_always(content, original_content) == TRUE

\* "if content != original_content"
changed(content, original_content) == content # original_content

\* A slip: "except OSError", which lets the UnicodeDecodeError of read_text
\* leave migrate_file.
except_oserror_context(file_path, e, sofar) ==
    IF e = ReadError
    THEN [sofar EXCEPT !.raised = TRUE]
    ELSE [sofar EXCEPT !.success = FALSE,
                       !.warnings = @ \o <<ErrorWarning(file_path, e)>>]

\* "except Exception as e" of migrate-to-context-api.py, entered with what the
\* try block had done so far.
except_context(file_path, e, sofar) ==
    [sofar EXCEPT !.success = FALSE,
                  !.warnings = @ \o <<ErrorWarning(file_path, e)>>]

\* "except Exception as e" of migrate-to-safe-api.py.
except_safe(file_path, e, sofar) ==
    [sofar EXCEPT !.success = FALSE,
                  !.errors = @ \o <<"  Error: " \o file_path \o ": " \o e>>]

\* The try block of migrate_file of migrate-to-context-api.py once the
\* passes have turned text into content.
finish_context(file_path, text, content, writable) ==
    Strict([NoOutcome(text) EXCEPT
              !.printed = <<"  Migrating: " \o file_path>>,
              !.warnings = Strict(Count(content, "useChatStore"),
                                  LAMBDA remaining :
                                      IF remaining > 0
                                      THEN <<ResidualWarning(file_path, remaining)>>
                                      ELSE <<>>)],
           LAMBDA scanned :
               IF changed(content, text)
               THEN IF writable
                    THEN [scanned EXCEPT !.write_called = TRUE, !.content = content,
                                         !.success = TRUE]
                    ELSE except_context(file_path, WriteError,
                                        [scanned EXCEPT !.write_called = TRUE])
               ELSE scanned)

\* migrate_file of migrate-to-context-api.py on a file holding text.
migrate_file_context(file_path, text, readable, writable) ==
    IF ~readable THEN except_context(file_path, ReadError, NoOutcome(text))
    ELSE IF ~Contains(text, "useChatStore") THEN NoOutcome(text)
    ELSE Strict(ContextPipeline(text),
                LAMBDA content : finish_context(file_path, text, content, writable))

\* The try block of migrate_file of migrate-to-safe-api.py once the passes
\* have turned text into content.
finish_safe(file_path, text, content, writable) ==
    Strict([NoOutcome(text) EXCEPT !.printed = <<"  Migrating: " \o file_path>>],
           LAMBDA scanned :
               IF changed(content, text)
               THEN IF writable
                    THEN [scanned EXCEPT !.write_called = TRUE, !.content = content,
                                         !.success = TRUE]
                    ELSE except_safe(file_path, WriteError,
                                     [scanned EXCEPT !.write_called = TRUE])
               ELSE scanned)

\* migrate_file of migrate-to-safe-api.py.
migrate_file_safe(file_path, text, readable, writable) ==
    IF ~readable THEN except_safe(file_path, ReadError, NoOutcome(text))
    ELSE IF ~Contains(text, "window.electronAPI") THEN NoOutcome(text)
    ELSE Strict(SafePipeline(text),
                LAMBDA content : finish_safe(file_path, text, content, writable))

migrate_file(s, file_path, text, readable, writable) ==
    IF s = "context" THEN migrate_file_context(file_path, text, readable, writable)
    ELSE migrate_file_safe(file_path, text, readable, writable)

(***************************************************************************)
(* State.  The first group is a run of one of the scripts over a source    *)
(* tree; the second is one text handed to the passes on their own.         *)
(***************************************************************************)
VARIABLES
    script,         \* "context" or "safe": which script runs
    exists,         \* exists[r]: the root Roots[r] is a directory
    tree,           \* tree[f]: root, suffix, original text and permissions of file f
    disk,           \* disk[f]: the content of file f now
    reads,          \* reads[f]: calls of read_text on f
    write_calls,    \* write_calls[f]: calls of write_text on f
    pc,             \* where main is
    root_pos,       \* index in RootsOf(script) of the root being walked
    pending,        \* the files rglob has still to yield for that root
    migrated_count,
    all_warnings,
    stdout,
    stderr,
    exit_code,
    parts,          \* the pieces the text under test is made of
    stage,          \* the pass applied to it last
    output,         \* its result
    second,         \* the result of applying the pipeline to output again
    report          \* the warnings of migrate_file for it

runVars ==
    <<script, exists, tree, disk, reads, write_calls, pc, root_pos, pending,
      migrated_count, all_warnings, stdout, stderr, exit_code>>

textVars == <<parts, stage, output, second, report>>

vars == <<runVars, textVars>>

(***************************************************************************)
(* Source trees.                                                           *)
(***************************************************************************)
NumFiles == 2

\* A source both scripts change.
BothText == "useChatStore.getState().closeFile(window.electronAPI.tab);\n"

\* A source that holds both legacy symbols and that neither script changes.
BareText == "const s = useChatStore, w = window.electronAPI;\n"

\* A source without a legacy symbol.
PlainText == "export {};\n"

File(suffix, text, readable, writable) ==
    [suffix |-> suffix, text |-> text, readable |-> readable, writable |-> writable]

\* The kinds of file a walked tree holds: sources the passes change, leave
\* alone or never see, one that read_text cannot decode, one that is
\* read-only, and one that rglob('*.ts*') yields although it is no TypeScript
\* source.
SampleFiles ==
    { File(".tsx", BothText, TRUE, TRUE),
      File(".ts", BareText, TRUE, TRUE),
      File(".ts", PlainText, TRUE, TRUE),
      File(".tsx", BothText, FALSE, TRUE),
      File(".ts", BothText, TRUE, FALSE),
      File(".tsv", BothText, TRUE, TRUE) }

\* The files of the tree, numbered root by root in the order of the walk.
Files == 1..NumFiles

FilePath(f) == Roots[tree[f].root] \o "/f" \o ToString(f) \o tree[f].suffix

RECURSIVE WalkFrom(_, _)
WalkFrom(r, f) ==
    IF f > NumFiles THEN <<>>
    ELSE (IF tree[f].root = r THEN <<f>> ELSE <<>>) \o WalkFrom(r, f + 1)

\* base_dir.rglob('*.ts*'): the files under root r, in the order of the walk.
Walk(r) == WalkFrom(r, 1)

TextIdle ==
    /\ parts = <<>>
    /\ stage = "none"
    /\ output = ""
    /\ second = ""
    /\ report = <<>>

Init ==
    /\ script \in {"context", "safe"}
    /\ exists \in [{1, 2} -> BOOLEAN]
    /\ \E kinds \in [Files -> SampleFiles], where \in [Files -> {1, 2}] :
          /\ \A f \in Files : exists[where[f]]
          /\ \A f, g \in Files : f < g => where[f] <= where[g]
          /\ tree = [f \in Files |->
                       [root |-> where[f], suffix |-> kinds[f].suffix,
                        text |-> kinds[f].text, readable |-> kinds[f].readable,
                        writable |-> kinds[f].writable]]
    /\ disk = [f \in Files |-> tree[f].text]
    /\ reads = [f \in Files |-> 0]
    /\ write_calls = [f \in Files |-> 0]
    /\ pc = "start"
    /\ root_pos = 0
    /\ pending = <<>>
    /\ migrated_count = 0
    /\ all_warnings = <<>>
    /\ stdout = <<>>
    /\ stderr = <<>>
    /\ exit_code = -1
    /\ TextIdle

(***************************************************************************)
(* main of migrate-to-context-api.py up to its loop.  Printed lines are    *)
(* kept without the pictograph that starts some of them.                   *)
(***************************************************************************)
MainContextStart ==
    /\ script = "context"
    /\ pc = "start"
    /\ IF ~exists[1]
       THEN /\ stdout' = stdout \o <<"Directory not found: " \o Roots[1]>>
            /\ exit_code' = 1
            /\ pc' = "done"
            /\ UNCHANGED <<root_pos, pending>>
       ELSE /\ stdout' = stdout \o <<"Starting useChatStore -> useExtensionAPIContext migration...",
                                     "", "Processing " \o Roots[1] \o "...", "">>
            /\ root_pos' = 1
            /\ pending' = Walk(1)
            /\ pc' = "files"
            /\ UNCHANGED exit_code
    /\ UNCHANGED <<script, exists, tree, disk, reads, write_calls, migrated_count,
                   all_warnings, stderr, textVars>>

\* main of migrate-to-safe-api.py up to its loop over the roots.
MainSafeStart ==
    /\ script = "safe"
    /\ pc = "start"
    /\ stdout' = stdout \o <<"Starting safe API migration...", "">>
    /\ root_pos' = 1
    /\ pc' = "roots"
    /\ UNCHANGED <<script, exists, tree, disk, reads, write_calls, pending,
                   migrated_count, all_warnings, stderr, exit_code, textVars>>

\* The head of "for base_dir in [editor_dir, browser_dir]".
NextRoot ==
    /\ script = "safe"
    /\ pc = "roots"
    /\ IF root_pos > Len(RootsOf(script))
       THEN /\ pc' = "summary"
            /\ UNCHANGED <<root_pos, pending, stdout>>
       ELSE LET r == RootsOf(script)[root_pos] IN
            IF ~exists[r]
            THEN /\ stdout' = stdout \o <<"Directory not found: " \o Roots[r]>>
                 /\ root_pos' = root_pos + 1
                 /\ UNCHANGED <<pc, pending>>
            ELSE /\ stdout' = stdout \o <<"Processing " \o Roots[r] \o "...">>
                 /\ pending' = Walk(r)
                 /\ pc' = "files"
                 /\ UNCHANGED root_pos
    /\ UNCHANGED <<script, exists, tree, disk, reads, write_calls, migrated_count,
                   all_warnings, stderr, exit_code, textVars>>

\* One iteration of "for file_path in ....rglob('*.ts*')" of either script:
\* the suffix test, migrate_file, and the bookkeeping of its result.  An
\* exception that leaves migrate_file leaves main too: main has no try.
LoopBody ==
    /\ pc = "files"
    /\ pending # <<>>
    /\ LET f == Head(pending) IN
       /\ pending' = Tail(pending)
       /\ IF tree[f].suffix \in {".ts", ".tsx"}
          THEN \E r \in {migrate_file(script, FilePath(f), disk[f], tree[f].readable,
                                     tree[f].writable)} :
                   /\ reads' = [reads EXCEPT ![f] = @ + 1]
                   /\ write_calls' = [write_calls EXCEPT ![f] = @ + (IF r.write_called THEN 1 ELSE 0)]
                   /\ disk' = [disk EXCEPT ![f] = r.content]
                   /\ stdout' = stdout \o r.printed
                   /\ stderr' = stderr \o r.errors
                   /\ IF r.raised
                      THEN /\ pc' = "aborted"
                           /\ exit_code' = 1
                           /\ UNCHANGED <<migrated_count, all_warnings>>
                      ELSE /\ migrated_count' = migrated_count + (IF r.success THEN 1 ELSE 0)
                           /\ all_warnings' = all_warnings \o r.warnings
                           /\ UNCHANGED <<pc, exit_code>>
          ELSE UNCHANGED <<reads, write_calls, disk, stdout, stderr, pc, exit_code,
                           migrated_count, all_warnings>>
    /\ UNCHANGED <<script, exists, tree, root_pos, textVars>>

\* The rglob of the root is exhausted.
LoopEnd ==
    /\ pc = "files"
    /\ pending = <<>>
    /\ IF script = "context"
       THEN pc' = "summary" /\ UNCHANGED root_pos
       ELSE pc' = "roots" /\ root_pos' = root_pos + 1
    /\ UNCHANGED <<script, exists, tree, disk, reads, write_calls, pending,
                   migrated_count, all_warnings, stdout, stderr, exit_code, textVars>>

\* The lines main of migrate-to-context-api.py prints last.
ManualReviewNotes ==
    <<"", "Manual review needed for:",
      "  - setOpenFiles() calls (may need adjustment)",
      "  - setShowTerminalPanel() -> toggleTerminal() (signature changed)",
      "  - setEditorChatMessages() -> chat API (check logic)",
      "  - Complex state updates">>

RECURSIVE WarningLines(_, _)
WarningLines(warnings, n) ==
    IF n > Len(warnings) THEN <<>>
    ELSE <<"  - " \o warnings[n]>> \o WarningLines(warnings, n + 1)

\* What both scripts do after their loop: the summary, in the store-to-context
\* script the warnings and the notes, and the return.
Summary ==
    /\ pc = "summary"
    /\ stdout' = stdout \o <<"", "Migration complete!",
                             "  Migrated files: " \o ToString(migrated_count)>>
                        \o (IF script = "context" /\ all_warnings # <<>>
                            THEN <<"", "Warnings:">> \o WarningLines(all_warnings, 1)
                            ELSE <<>>)
                        \o (IF script = "context" THEN ManualReviewNotes ELSE <<>>)
    /\ exit_code' = 0
    /\ pc' = "done"
    /\ UNCHANGED <<script, exists, tree, disk, reads, write_calls, root_pos, pending,
                   migrated_count, all_warnings, stderr, textVars>>

Next ==
    \/ MainContextStart
    \/ MainSafeStart
    \/ NextRoot
    \/ LoopBody
    \/ LoopEnd
    \/ Summary

Spec == Init /\ [][Next]_vars

\* main runs to its end: the interpreter keeps taking the next step.
FairSpec == Spec /\ WF_vars(Next)

(***************************************************************************)
(* Properties of a run.                                                    *)
(***************************************************************************)
WalkedRoots == {RootsOf(script)[i] : i \in 1..Len(RootsOf(script))}

\* The files main hands to migrate_file.
Candidates ==
    {f \in DOMAIN tree : tree[f].root \in WalkedRoots /\ tree[f].suffix \in {".ts", ".tsx"}}

HasTrigger(f) == Contains(tree[f].text, Trigger(script))

\* read_text or write_text has raised on f: write_text raises when it is
\* called on a read-only file.
Failing(f) ==
    \/ reads[f] > 0 /\ ~tree[f].readable
    \/ write_calls[f] > 0 /\ ~tree[f].writable

\* C1: in both scripts migrate_file calls write_text on a file only if the
\* file's original content holds the trigger substring and the pipeline
\* changes it; a file it does not write keeps its content.
C1_WriteOnlyWhenChanged ==
    \A f \in DOMAIN tree :
        /\ write_calls[f] > 0 =>
              /\ HasTrigger(f)
              /\ Pipeline(script, tree[f].text) # tree[f].text
        /\ write_calls[f] = 0 => disk[f] = tree[f].text

\* A finished run that rewrote one file and scanned another that holds the
\* trigger but came out of the pipeline unchanged.
C1_Witness ==
    /\ pc = "done"
    /\ \E f, g \in DOMAIN tree :
          /\ write_calls[f] = 1 /\ disk[f] # tree[f].text
          /\ reads[g] = 1 /\ tree[g].readable /\ HasTrigger(g) /\ write_calls[g] = 0

Mentions(lines, file_path) ==
    \E i \in 1..Len(lines) : Contains(lines[i], file_path) /\ Contains(lines[i], "Error")

\* What holds when the summary has been printed.
SummaryState ==
    /\ \A f \in Candidates : reads[f] = 1
    /\ \A f \in DOMAIN tree \ Candidates : reads[f] = 0
    /\ \A f \in Candidates : Failing(f) =>
          /\ disk[f] = tree[f].text
          /\ Mentions(IF script = "context" THEN all_warnings ELSE stderr, FilePath(f))
    /\ migrated_count = Cardinality({f \in Candidates : ~Failing(f) /\ disk[f] # tree[f].text})

\* C2: an exception of read_text or write_text on one file is caught and
\* turned into a warning string; it never aborts the run, the failing file is
\* not counted as migrated, every candidate file is processed exactly once,
\* and a run that has entered its loop reaches the final summary.
C2_ErrorsNeverAbort ==
    /\ [](pc # "aborted")
    /\ [](pc = "done" /\ exit_code = 0 => SummaryState)
    /\ (pc = "files" ~> (pc = "done" /\ exit_code = 0))

\* A finished run in which a file failed and a later file of the same walk
\* was still migrated.
C2_Witness ==
    /\ pc = "done"
    /\ exit_code = 0
    /\ \E f, g \in Candidates :
          /\ f < g
          /\ tree[f].root = tree[g].root
          /\ Failing(f)
          /\ disk[g] # tree[g].text
          /\ migrated_count >= 1

(***************************************************************************)
(* The passes on one text.  No script runs: the run state stays idle.      *)
(***************************************************************************)
RunIdle ==
    /\ script = "none"
    /\ exists = [r \in {1, 2} |-> FALSE]
    /\ tree = <<>>
    /\ disk = <<>>
    /\ reads = <<>>
    /\ write_calls = <<>>
    /\ pc = "idle"
    /\ root_pos = 0
    /\ pending = <<>>
    /\ migrated_count = 0
    /\ all_warnings = <<>>
    /\ stdout = <<>>
    /\ stderr = <<>>
    /\ exit_code = -1

RECURSIVE Concat(_)
Concat(pieces) ==
    IF Len(pieces) = 0 THEN "" ELSE Head(pieces) \o Concat(Tail(pieces))

\* The sequences of at most n elements of S.
RECURSIVE SeqsUpTo(_, _)
SeqsUpTo(S, n) ==
    IF n = 0 THEN {<<>>}
    ELSE LET shorter == SeqsUpTo(S, n - 1)
         IN  shorter \cup {Append(q, x) : q \in shorter, x \in S}

\* The text under test.
Input == Concat(parts)

TextInit(inputs) ==
    /\ RunIdle
    /\ parts \in inputs
    /\ stage = "input"
    /\ output = ""
    /\ second = ""
    /\ report = <<>>

\* Steps 1-4 of migrate_file of migrate-to-context-api.py on the text.
RunContextPipeline ==
    /\ stage = "input"
    /\ output' = ContextPipeline(Input)
    /\ stage' = "migrated"
    /\ UNCHANGED <<runVars, parts, second, report>>

\* The same steps again, on what the first run left: a second run of the script.
RerunContextPipeline ==
    /\ stage = "migrated"
    /\ second' = ContextPipeline(output)
    /\ stage' = "migrated twice"
    /\ UNCHANGED <<runVars, parts, output, report>>

MaxChunks == 3

IdemChunks ==
    { "import { useChatStore } from '@/lib/store/chat-store';\n",
      "export function Ed() {\n",
      "function Pane(): Row {\n",
      "f = useChatStore((state) => state.openFiles);\n",
      "n = useChatStore.getState().",
      "openFilesCount;\n",
      "const context = useExtensionAPIContext();\n" }

InitIdem == TextInit(SeqsUpTo(IdemChunks, MaxChunks))

NextIdem == RunContextPipeline \/ RerunContextPipeline

SpecIdem == InitIdem /\ [][NextIdem]_vars

\* C3: the store-to-context pipeline is idempotent: run on its own output it
\* changes nothing, so a second run of the script rewrites no migrated file.
C3_Idempotent == stage = "migrated twice" => second = output

\* A text with the legacy hook that the first run changed, run twice.
C3_Witness ==
    /\ stage = "migrated twice"
    /\ Contains(Input, "useChatStore")
    /\ output # Input
    /\ second = output

(***************************************************************************)
(* The residual count of migrate_file of migrate-to-context-api.py, on     *)
(* files made of usages of the legacy hook, one to a line.                 *)
(***************************************************************************)
MaxUsages == 2

LegacyImport == "import { useChatStore } from '@/lib/store/chat-store';\n"

SelectorUse(k) == "const a = useChatStore((state) => state." \o k \o ");\n"

SelectorReturnUse(k) == "const b = useChatStore((state) => { return state." \o k \o "; });\n"

GetStateCall(k) == "useChatStore.getState()." \o k \o "(id);\n"

GetStateRead(k) == "const c = useChatStore.getState()." \o k \o ";\n"

BareUse == "export const store = useChatStore;\n"

\* The keys of STATE_TO_API_MAP.
Keys == {STATE_TO_API_MAP[n][1] : n \in 1..Len(STATE_TO_API_MAP)}

PathOf(k) ==
    STATE_TO_API_MAP[CHOOSE n \in 1..Len(STATE_TO_API_MAP) : STATE_TO_API_MAP[n][1] = k][2]

SampleKeys == {"openFiles", "closeFile"}

\* Identifiers the table does not hold; two of them start with a key.
UnknownKeys == {"theme", "openFilesCount", "closeFileTab"}

\* Usages the table covers: selector or getState access on a key, and the import.
CoveredUsages ==
    {LegacyImport}
    \cup {SelectorUse(k) : k \in SampleKeys} \cup {SelectorReturnUse(k) : k \in SampleKeys}
    \cup {GetStateCall(k) : k \in SampleKeys} \cup {GetStateRead(k) : k \in SampleKeys}

\* Usages of the legacy hook on an identifier that is not a key.
NonKeyUsages ==
    {SelectorUse(k) : k \in UnknownKeys}
    \cup {GetStateCall(k) : k \in UnknownKeys} \cup {GetStateRead(k) : k \in UnknownKeys}

UncoveredUsages == NonKeyUsages \cup {BareUse}

SamplePath == Roots[1] \o "/Editor.tsx"

InitResidual == TextInit(SeqsUpTo(CoveredUsages \cup UncoveredUsages, MaxUsages))

\* migrate_file of migrate-to-context-api.py on a readable, writable file.
MigrateFileContext ==
    /\ stage = "input"
    /\ \E r \in {migrate_file_context(SamplePath, Input, TRUE, TRUE)} :
          /\ output' = r.content
          /\ report' = r.warnings
    /\ stage' = "migrated"
    /\ UNCHANGED <<runVars, parts, second>>

NextResidual == MigrateFileContext

SpecResidual == InitResidual /\ [][NextResidual]_vars

\* The usages of the file the table does not cover.
Uncovered == Cardinality({i \in 1..Len(parts) : parts[i] \in UncoveredUsages})

\* C4: after migrate_file the residual count of 'useChatStore' is zero for a
\* file whose usages the table covers and otherwise the number of uncovered
\* usages; a warning naming the file is emitted iff that count is non-zero,
\* and it holds the count verbatim.
C4_ResidualCount ==
    stage = "migrated" =>
        /\ Count(output, "useChatStore") = Uncovered
        /\ report = IF Uncovered > 0 THEN <<ResidualWarning(SamplePath, Uncovered)>> ELSE <<>>

\* C5: every usage of the legacy hook on an identifier that is not a key of
\* STATE_TO_API_MAP, an identifier that starts with a key included, is in the
\* migrated text as it was written and is counted in the file's warning.
C5_NonKeysUntouched ==
    stage = "migrated" =>
        \A i \in 1..Len(parts) :
            parts[i] \in NonKeyUsages =>
                /\ Contains(output, parts[i])
                /\ Len(report) = 1
                /\ Contains(report[1], SamplePath)
                /\ Contains(report[1], "instances of useChatStore remain")

(***************************************************************************)
(* migrate_getstate_calls on accesses to the keys of the table.            *)
(***************************************************************************)
MaxAccesses == 1

AccessPrefixes == {"", "const v = "}

\* What follows the key: the arguments of a call, or the rest of a read.
AccessTails == {"(id);\n", ";\n", ".length;\n", ""}

\* One access, in pieces: what precedes it, the store, the key, what follows.
Accesses ==
    {<<pre, "useChatStore.getState().", k, tail>> :
        pre \in AccessPrefixes, k \in Keys, tail \in AccessTails}

RECURSIVE AccessTexts(_)
AccessTexts(n) ==
    IF n = 0 THEN {<<>>}
    ELSE {a \o rest : a \in Accesses, rest \in AccessTexts(n - 1)}

InitGetState == TextInit(UNION {AccessTexts(n) : n \in 1..MaxAccesses})

\* Step 3 of migrate_file on the text.
RunGetStateCalls ==
    /\ stage = "input"
    /\ output' = migrate_getstate_calls(Input)
    /\ stage' = "rewritten"
    /\ UNCHANGED <<runVars, parts, second, report>>

NextGetState == RunGetStateCalls

SpecGetState == InitGetState /\ [][NextGetState]_vars

\* The text with every access to a key k replaced by context.p and the rest,
\* the parenthesis and arguments of a call included, as it was.
RECURSIVE RewrittenFrom(_, _)
RewrittenFrom(pieces, n) ==
    IF n > Len(pieces) THEN ""
    ELSE pieces[n] \o "context." \o PathOf(pieces[n + 2]) \o pieces[n + 3]
         \o RewrittenFrom(pieces, n + 4)

\* C6: for every key k with path p, useChatStore.getState().k followed by '('
\* becomes context.p followed by the same '(' and arguments, and not followed
\* by '(' becomes context.p with no parenthesis; the text around is unchanged.
C6_GetStateRewritten == stage = "rewritten" => output = RewrittenFrom(parts, 1)

\* A call on a key and a bare read of a key, both rewritten.
C6_Witness ==
    /\ stage = "rewritten"
    /\ \/ Input = "useChatStore.getState().closeFile(id);\n"
          /\ output = "context.files.closeFile(id);\n"
       \/ Input = "useChatStore.getState().openFiles"
          /\ output = "context.files.openFiles"

(***************************************************************************)
(* Steps 2 and 3 of migrate_file of migrate-to-safe-api.py on a condition  *)
(* whose right-hand operand is the test of window.electronAPI.             *)
(***************************************************************************)
MaxSpaces == 1

RECURSIVE Spaces(_)
Spaces(n) == IF n = 0 THEN "" ELSE " " \o Spaces(n - 1)

Blanks == {Spaces(n) : n \in 0..MaxSpaces}

\* pre, A, blank, operator, blank, test, mark, blank, post
Conditions ==
    {<<pre, a, b1, op, b2, neg \o "window.electronAPI", mark, b3, post>> :
        pre \in {"if (", "return "}, a \in {"x", "a.ready()"}, b1 \in Blanks,
        op \in {"&&", "||"}, b2 \in Blanks, neg \in {"", "!"}, mark \in {"", "!", "?"},
        b3 \in Blanks, post \in {") { run(); }", ";", "&& y"}}

InitGuard == TextInit(Conditions)

RunGuardPasses ==
    /\ stage = "input"
    /\ output' = remove_electron_api_checks(replace_electron_api_calls(Input))
    /\ stage' = "stripped"
    /\ UNCHANGED <<runVars, parts, second, report>>

NextGuard == RunGuardPasses

SpecGuard == InitGuard /\ [][NextGuard]_vars

\* C7: a condition A op test, with op one of && and ||, the test negated or
\* not and with an optional trailing '!' or '?', comes out of the call-site
\* rewrite and the guard stripping as A followed by what followed the test:
\* the operator, the test and the whitespace at its three boundaries are gone.
C7_GuardStripped ==
    stage = "stripped" => output = parts[1] \o parts[2] \o parts[9]

\* The guard of an if statement, and an || guard with a trailing '?'.
C7_Witness ==
    /\ stage = "stripped"
    /\ \/ Input = "if (x && !window.electronAPI) { run(); }" /\ output = "if (x) { run(); }"
       \/ Input = "return x || window.electronAPI?;" /\ output = "return x;"

(***************************************************************************)
(* add_context_hook on a file with function declarations.                  *)
(***************************************************************************)
HookLine == "\n  " \o HookStatement \o ";"

Preambles == {"", "import React from 'react';\n", "const n = 1;\n"}

\* Declarations up to the brace that opens the body.
PlainDeclarations ==
    {"function Editor() {", "export function Editor(props) {", "function Pane(a, b){"}

AnnotatedDeclarations ==
    {"function Editor(): void {", "export function Editor(props: Props): JSX.Element {",
     "function Pane() : Row {"}

Bodies ==
    {"\n  return null;\n}\n",
     "\n  return null;\n}\nfunction Other() {\n  return 1;\n}\n",
     "\n  " \o HookStatement \o ";\n  return null;\n}\n",
     "}\n"}

\* preamble, first declaration, its body and what follows
InitHook ==
    TextInit({<<pre, decl, body>> :
                 pre \in Preambles, decl \in PlainDeclarations \cup AnnotatedDeclarations,
                 body \in Bodies})

RunAddContextHook ==
    /\ stage = "input"
    /\ output' = add_context_hook(Input)
    /\ stage' = "hooked"
    /\ UNCHANGED <<runVars, parts, second, report>>

NextHook == RunAddContextHook

SpecHook == InitHook /\ [][NextHook]_vars

\* C8: on a file without the hook statement add_context_hook puts the
\* statement on the first line of the body of the first function declaration,
\* whether the body opens right after the parameter list or after a
\* return-type annotation, and touches nothing else; a file that holds the
\* statement comes back unchanged.
C8_HookFirstInBody ==
    stage = "hooked" =>
        output = IF Contains(Input, HookStatement) THEN Input
                 ELSE parts[1] \o parts[2] \o HookLine \o parts[3]

(***************************************************************************)
(* update_imports on a file of import lines and statements.                *)
(***************************************************************************)
MaxLines == 2

\* Lines that import the legacy hook from the chat-store module.
LegacyImportLines ==
    {"import { useChatStore } from '@/lib/store/chat-store';",
     "import {useChatStore} from '@/lib/store/chat-store';",
     "import { useChatStore, useUiStore } from '@/lib/store/chat-store';"}

OtherLines ==
    {"import React from 'react';",
     "import type { ChatState } from '@/lib/store/chat-store';",
     "const ready = true;",
     ""}

\* Every line is a piece with its newline; the file ends with a last line.
InitImports ==
    TextInit({<<first \o "\n">> \o more \o <<"export {};">> :
                 first \in LegacyImportLines \cup OtherLines,
                 more \in SeqsUpTo({l \o "\n" : l \in LegacyImportLines \cup OtherLines},
                                   MaxLines - 1)})

RunUpdateImports ==
    /\ stage = "input"
    /\ output' = update_imports(Input)
    /\ stage' = "imports updated"
    /\ UNCHANGED <<runVars, parts, second, report>>

NextImports == RunUpdateImports

SpecImports == InitImports /\ [][NextImports]_vars

IsLegacyImportPiece(piece) == \E l \in LegacyImportLines : piece = l \o "\n"

\* The file with the first import of the legacy hook replaced by the new
\* import, the others removed and every other line kept.
RECURSIVE ImportsReplaced(_, _, _)
ImportsReplaced(pieces, n, replaced) ==
    IF n > Len(pieces) THEN ""
    ELSE IF IsLegacyImportPiece(pieces[n])
    THEN (IF replaced THEN "" ELSE NewImportLine \o "\n")
         \o ImportsReplaced(pieces, n + 1, TRUE)
    ELSE pieces[n] \o ImportsReplaced(pieces, n + 1, replaced)

\* C9: update_imports removes every line that imports the legacy hook from
\* the chat-store module; when it removes one, the output holds exactly one
\* new import of useExtensionAPIContext, where the first removed line was;
\* every other line is kept, unchanged and in order.
C9_ImportsReplaced ==
    stage = "imports updated" => output = ImportsReplaced(parts, 1, FALSE)

(***************************************************************************)
(* add_safe_electron_import on a file of import lines and statements.      *)
(***************************************************************************)
SdkImportLines ==
    {"import { ExtensionAPI } from '@sepilot/extension-sdk';\n",
     "import type { Manifest } from '@sepilot/extension-sdk';\n",
     "import * as sdk from \"@sepilot/extension-sdk\";\n"}

SafeFileLines ==
    SdkImportLines
    \cup {"import React from 'react';\n",
          "// editor panel\n",
          "window.electronAPI.fs.read(p);\n"}

InitSafeImport == TextInit(SeqsUpTo(SafeFileLines, MaxLines + 1))

RunAddSafeImport ==
    /\ stage = "input"
    /\ output' = add_safe_electron_import(Input)
    /\ stage' = "import added"
    /\ UNCHANGED <<runVars, parts, second, report>>

NextSafeImport == RunAddSafeImport

SpecSafeImport == InitSafeImport /\ [][NextSafeImport]_vars

HasImportLine == \E i \in 1..Len(parts) : LitAt(parts[i], 1, "import ")

\* C10: on content without the name safeElectronAPI that has at least one
\* import line, the output of add_safe_electron_import imports
\* safeElectronAPI from '@sepilot/extension-sdk'; only a file with no import
\* line at all comes back without it.
C10_SafeImportAdded ==
    stage = "import added" =>
        IF HasImportLine
        THEN /\ Contains(output, "safeElectronAPI")
             /\ Contains(output, "from '@sepilot/extension-sdk'")
        ELSE output = Input

====
